---------------------------- MODULE Spec2Model ----------------------------
(***************************************************************************)
(* Lumios (src/game.js): a two-player game in which a launched ball        *)
(* strikes five target balls ("Lumies") and converts their colors.         *)
(*                                                                         *)
(* Numbers.  JavaScript doubles are modelled in fixed point:               *)
(*   lengths and positions   1 unit = 1/100 px                             *)
(*   velocities              1 unit = 1/100 px per tick                    *)
(*   angles                  1 unit = 1/1000 rad, kept modulo 2*pi         *)
(*   unit vectors, Math.random()   1 unit = 1/1000                         *)
(*   time                    1 unit = 1 ms (Date.now())                    *)
(* Every product is divided back with truncation toward zero.  NaN is a    *)
(* value of its own that every arithmetic operator propagates and every    *)
(* comparison answers FALSE on, as in JavaScript.                          *)
(*                                                                         *)
(* Math.random() is a generator with hidden state: the model draws its     *)
(* outputs from a cyclic stream (seed) chosen at start, read at rpos.      *)
(***************************************************************************)
EXTENDS Integers, Sequences, FiniteSets, TLC

VARIABLES
    lumies,        \* this.lumies: the five target balls, in creation order
    playerBall,    \* this.playerBall
    currentPlayer, \* this.currentPlayer: 1 or 2
    playerColors,  \* this.playerColors: player -> "null" | "green" | "blue"
    scores,        \* this.scores (written by the constructor only)
    scoreText,     \* textContent of #scoreGreen / #scoreBlue
    overlay,       \* the win modal: "hidden", or the color gameOver() announced
    turnState,     \* this.turnState
    dragStart,     \* this.dragStart: a point <<x, y>>, or NoPoint
    dragCurrent,   \* this.dragCurrent: a point <<x, y>>, or NoPoint
    turnChanges,   \* this.turnChanges: the roll's change log
    turnStartTime, \* this.turnStartTime (0 while still undefined: read as "|| 0")
    clock,         \* Date.now()
    seed,          \* the outputs of Math.random(), a cyclic stream
    rpos,          \* how many outputs of the stream have been drawn (mod its length)
    lastHits,      \* history: the onHitLumie calls of the latest frame, in call order
    lastChange,    \* history: per target, the time of its latest color change (-1: none)
    lastTurn,      \* history: the latest endTurn() call (player 0: none yet)
    lastRelease    \* history: the latest end() call that found a drag (len -1: none yet)

vars == <<lumies, playerBall, currentPlayer, playerColors, scores, scoreText,
          overlay, turnState, dragStart, dragCurrent, turnChanges, turnStartTime,
          clock, seed, rpos, lastHits, lastChange, lastTurn, lastRelease>>

----------------------------------------------------------------------------
(* CONFIG, in the model's units                                            *)

Friction == 94              \* physics.friction 0.94, per cent
AngularFriction == 95       \* physics.angularFriction 0.95, per cent
Restitution == 80           \* physics.restitution 0.8, per cent
StopThreshold == 5          \* physics.stopThreshold 0.05 px/tick
MaxPower == 2500            \* physics.maxPower 25 px/tick
DragScale == 15             \* physics.dragScale 0.15, per cent
WobbleStrength == 15        \* physics.wobbleStrength 0.15 px/tick
BallRadius == 2200          \* game.ballRadius 22 px
LumieRadius == 2000         \* game.lumieRadius 20 px
LumieSpacing == 7000        \* game.lumieSpacing 70 px
Cooldown == 4000            \* game.cooldown, ms
Count == 5                  \* initBoard: const count = 5
WobbleSpeed == 10           \* Ball.update: speed > 0.1
MinDrag == 5                \* shoot: len < 5, px
TimeLimit == 3000           \* updatePhysics: elapsed > 3000, ms
ImpactMin == 50             \* resolveCollision: impactPower > 0.5
GrabDist == 6000            \* bindEvents/start: distToBall < 60 px
SpawnOffset == 100          \* resetPlayerBall: height - 100 / 100, px
GameOverDraws == 151        \* gameOver: 1 + 50 * 3 calls of Math.random()

\* window.innerWidth / window.innerHeight, px
Width == 240
Height == 300

Null == "null"

\* this.dragStart, this.dragCurrent: null, or a point <<x, y>>
NoPoint == <<>>
TwoPi == 6283
Half == 500                 \* Math.random() > 0.5, Math.random() - 0.5

----------------------------------------------------------------------------
(* Arithmetic on doubles                                                   *)

NaN == -(10 ^ 9)

IsNaN(a) == a = NaN

Abs(a) == IF a < 0 THEN -a ELSE a

TruncDiv(a, b) == IF a >= 0 THEN a \div b ELSE -((-a) \div b)

RECURSIVE SqrtSearch(_, _, _)
SqrtSearch(n, lo, hi) ==
    IF lo >= hi THEN lo
    ELSE IF ((lo + hi + 1) \div 2) * ((lo + hi + 1) \div 2) <= n
         THEN SqrtSearch(n, (lo + hi + 1) \div 2, hi)
         ELSE SqrtSearch(n, lo, (lo + hi + 1) \div 2 - 1)

\* floor of the square root
ISqrt(n) == SqrtSearch(n, 0, IF n < 46340 THEN n ELSE 46340)

\* a + b
Plus(a, b) == IF IsNaN(a) \/ IsNaN(b) THEN NaN ELSE a + b

\* a - b
Minus(a, b) == IF IsNaN(a) \/ IsNaN(b) THEN NaN ELSE a - b

\* a * b
Mul(a, b) == IF IsNaN(a) \/ IsNaN(b) THEN NaN ELSE a * b

\* a / b, b >= 0; 0 / 0 is NaN
Quot(a, b) == IF IsNaN(a) \/ IsNaN(b) \/ b = 0 THEN NaN ELSE TruncDiv(a, b)

\* a * num / den, for a factor num/den
Times(a, num, den) == Quot(Mul(a, num), den)

\* a < b
Less(a, b) == ~IsNaN(a) /\ ~IsNaN(b) /\ a < b

\* a > b
Greater(a, b) == ~IsNaN(a) /\ ~IsNaN(b) /\ a > b

\* Math.abs
AbsN(a) == IF IsNaN(a) THEN NaN ELSE Abs(a)

\* Math.hypot(a, b)
Hypot(a, b) == IF IsNaN(a) \/ IsNaN(b) THEN NaN ELSE ISqrt(a * a + b * b)

\* Math.cos / Math.sin of an angle, to the nearest sixteenth of a turn
CosTable == <<1000, 924, 707, 383, 0, -383, -707, -924,
              -1000, -924, -707, -383, 0, 383, 707, 924>>

Sector(a) == (((a % TwoPi) * 16 + TwoPi \div 2) \div TwoPi) % 16

Cos(a) == CosTable[Sector(a) + 1]

Sin(a) == CosTable[((Sector(a) + 12) % 16) + 1]

\* Math.min
Min(a, b) == IF a < b THEN a ELSE b

----------------------------------------------------------------------------
(* Math.random(): the k-th output drawn after the pos already drawn        *)

Draw(pos, k) == seed[((pos + k) % Len(seed)) + 1]

Random(k) == Draw(rpos, k)

----------------------------------------------------------------------------
(* class Ball                                                              *)

\* constructor(x, y, r, color, isLumie); r1, r2 are its two Math.random() outputs
Ball(x, y, r, color, isLumie, r1, r2) ==
    [x |-> x, y |-> y, r |-> r, color |-> color, vx |-> 0, vy |-> 0,
     mass |-> r,
     angle |-> TruncDiv(r1 * TwoPi, 1000),
     angularVelocity |-> 0,
     heavyPhase |-> TruncDiv(r2 * TwoPi, 1000),
     isLumie |-> isLumie, lockedUntil |-> 0, lastHit |-> 0]

\* update(), 1. Apply Physics, 2. Friction
BallMoved(b) ==
    [b EXCEPT !.x = Plus(b.x, b.vx),
              !.y = Plus(b.y, b.vy),
              !.angle = (b.angle + b.angularVelocity) % TwoPi,
              !.vx = Times(b.vx, Friction, 100),
              !.vy = Times(b.vy, Friction, 100),
              !.angularVelocity = TruncDiv(b.angularVelocity * AngularFriction, 100)]

\* update(): "const speed", of a ball b that steps 1 and 2 have moved
BallSpeed(b) == Hypot(b.vx, b.vy)

\* update(), 3. "Eccentric Mass" Simulation; rnd is the Math.random() it reads
BallWobble(b, speed, rnd) ==
    IF b.isLumie /\ Greater(speed, WobbleSpeed)
    THEN [b EXCEPT
            !.vx = Plus(b.vx, TruncDiv(Cos(b.angle + b.heavyPhase) * WobbleStrength, 1000)),
            !.vy = Plus(b.vy, TruncDiv(Sin(b.angle + b.heavyPhase) * WobbleStrength, 1000)),
            !.angularVelocity = @ + (speed \div 2) * (IF rnd > Half THEN 1 ELSE -1)]
    ELSE b

\* update(), 4. Stop Threshold
BallStop(b, speed) ==
    IF Less(speed, StopThreshold)
    THEN [b EXCEPT !.vx = 0, !.vy = 0, !.angularVelocity = 0]
    ELSE b

\* update(), steps 3 and 4 on a ball that steps 1 and 2 have moved
BallSettle(b, speed, rnd) == BallStop(BallWobble(b, speed, rnd), speed)

\* update()
BallUpdate(b, rnd) == BallSettle(BallMoved(b), BallSpeed(BallMoved(b)), rnd)

\* update(): whether step 3 runs, and so draws one Math.random()
Wobbles(b) == b.isLumie /\ Greater(BallSpeed(BallMoved(b)), WobbleSpeed)

----------------------------------------------------------------------------
(* class Game: the physics frame                                           *)
(* A frame works on a record w of what it reads and writes:                *)
(*   balls (allBalls: the lumies, then the player ball), moving,           *)
(*   turnChanges, playerColors, scoreText, overlay, drawn (outputs of      *)
(*   Math.random() drawn so far in this handler), and the history fields.  *)

\* An updatePhysics without the 3-second rule
HardStopNever(b, timeLimitReached) == b

\* updatePhysics: "if (timeLimitReached) { b.vx = 0; b.vy = 0; b.angularVelocity = 0; }"
HardStop(b, timeLimitReached) ==
    IF timeLimitReached
    THEN [b EXCEPT !.vx = 0, !.vy = 0, !.angularVelocity = 0]
    ELSE b

\* updatePhysics: "if (Math.abs(b.vx) > 0 || Math.abs(b.vy) > 0) moving = true"
IsMoving(b) == Greater(AbsN(b.vx), 0) \/ Greater(AbsN(b.vy), 0)

\* updatePhysics, Walls: the four tests, in order
WallLeft(b) ==
    IF Less(b.x, b.r)
    THEN [b EXCEPT !.x = b.r, !.vx = Times(b.vx, -Restitution, 100)]
    ELSE b

WallRight(b) ==
    IF Greater(b.x, Width * 100 - b.r)
    THEN [b EXCEPT !.x = Width * 100 - b.r, !.vx = Times(b.vx, -Restitution, 100)]
    ELSE b

WallTop(b) ==
    IF Less(b.y, b.r)
    THEN [b EXCEPT !.y = b.r, !.vy = Times(b.vy, -Restitution, 100)]
    ELSE b

WallBottom(b) ==
    IF Greater(b.y, Height * 100 - b.r)
    THEN [b EXCEPT !.y = Height * 100 - b.r, !.vy = Times(b.vy, -Restitution, 100)]
    ELSE b

Walls(b) == WallBottom(WallTop(WallRight(WallLeft(b))))

\* updatePhysics: the forEach body for ball i, once update() and the hard
\* stop have made it u; drew says whether update() drew a Math.random()
PutBall(w, i, u, drew) ==
    [w EXCEPT !.balls[i] = Walls(u),
              !.moving = @ \/ IsMoving(u),
              !.drawn = @ + (IF drew THEN 1 ELSE 0)]

\* updatePhysics: "allBalls.forEach(b => { ... })", from ball i on
RECURSIVE UpdateBalls(_, _, _)
UpdateBalls(w, i, timeLimitReached) ==
    IF i > Len(w.balls) THEN w
    ELSE UpdateBalls(
           PutBall(w, i,
                   HardStop(BallUpdate(w.balls[i], Random(w.drawn)), timeLimitReached),
                   Wobbles(w.balls[i])),
           i + 1, timeLimitReached)

\* gameOver(winnerColor): the modal, and the Math.random() calls of the
\* picture and the confetti
GameOver(w, winnerColor) ==
    [w EXCEPT !.overlay = winnerColor, !.drawn = @ + GameOverDraws]

\* updateScores(): "Win cond", g and b counted
WinCond(w, g, b) ==
    IF g = 5 /\ b = 5 THEN GameOver(GameOver(w, "green"), "blue")
    ELSE IF g = 5 THEN GameOver(w, "green")
    ELSE IF b = 5 THEN GameOver(w, "blue")
    ELSE w

\* updateScores(): the two counters on the page, g and b counted
ShowScores(w, g, b) ==
    WinCond([w EXCEPT !.scoreText = [green |-> g, blue |-> b]], g, b)

\* updateScores()
UpdateScores(w) ==
    ShowScores(w, Cardinality({i \in 1..Count : w.balls[i].color = "green"}),
                  Cardinality({i \in 1..Count : w.balls[i].color = "blue"}))

\* A color table that does not toggle a green lumie
NextColorStuck(color, rnd) ==
    CASE color = "red" -> IF rnd > Half THEN "green" ELSE "blue"
      [] color = "blue" -> "green"
      [] OTHER -> color

\* onHitLumie: the color an unlocked lumie takes; rnd is the output of
\* Math.random() read when it is red
NextColor(color, rnd) ==
    CASE color = "red" -> IF rnd > Half THEN "green" ELSE "blue"
      [] color = "green" -> "blue"
      [] color = "blue" -> "green"
      [] OTHER -> color

\* A first blood that assigns the acting player's color only
FirstBloodOwnOnly(colors, pick) ==
    IF colors[1] = Null /\ colors[2] = Null
    THEN [colors EXCEPT ![currentPlayer] = pick]
    ELSE colors

\* A first blood that gives the acting player the other color
FirstBloodSwapped(colors, pick) ==
    IF colors[1] = Null /\ colors[2] = Null
    THEN [p \in {1, 2} |-> IF p # currentPlayer THEN pick
                           ELSE IF pick = "green" THEN "blue" ELSE "green"]
    ELSE colors

\* A first blood that does not test whether the colors are already assigned
FirstBloodAlways(colors, pick) ==
    [p \in {1, 2} |-> IF p = currentPlayer THEN pick
                      ELSE IF pick = "green" THEN "blue" ELSE "green"]

\* onHitLumie: "First blood assignment", pick being the color a red lumie took
FirstBlood(colors, pick) ==
    IF colors[1] = Null /\ colors[2] = Null
    THEN [p \in {1, 2} |-> IF p = currentPlayer THEN pick
                           ELSE IF pick = "green" THEN "blue" ELSE "green"]
    ELSE colors

\* A conversion that does not start the cooldown
ConvertNoLock(w, i, now, prevColor, color) ==
    UpdateScores(
      [w EXCEPT !.balls[i].color = color,
                !.playerColors = IF prevColor = "red" THEN FirstBlood(@, color) ELSE @,
                !.drawn = @ + (IF prevColor = "red" THEN 1 ELSE 0),
                !.turnChanges = Append(@, [ball |-> i, before |-> prevColor,
                                           after |-> color])])

\* A conversion whose lock is over by the next frame
ConvertBriefLock(w, i, now, prevColor, color) ==
    UpdateScores(
      [w EXCEPT !.balls[i].color = color,
                !.balls[i].lockedUntil = now + 1,
                !.playerColors = IF prevColor = "red" THEN FirstBlood(@, color) ELSE @,
                !.drawn = @ + (IF prevColor = "red" THEN 1 ELSE 0),
                !.turnChanges = Append(@, [ball |-> i, before |-> prevColor,
                                           after |-> color])])

\* onHitLumie: an unlocked lumie i turns from prevColor to color
Convert(w, i, now, prevColor, color) ==
    UpdateScores(
      [w EXCEPT !.balls[i].color = color,
                !.balls[i].lockedUntil = now + Cooldown,
                !.playerColors = IF prevColor = "red" THEN FirstBlood(@, color) ELSE @,
                !.drawn = @ + (IF prevColor = "red" THEN 1 ELSE 0),
                !.turnChanges = Append(@, [ball |-> i, before |-> prevColor,
                                           after |-> color])])

\* An onHitLumie that does not test the lock
OnHitLumieUnlocked(w, i, now) ==
    Convert(w, i, now, w.balls[i].color,
            NextColor(w.balls[i].color, Random(w.drawn)))

\* onHitLumie(lumie), lumie = allBalls[i], Date.now() = now
OnHitLumie(w, i, now) ==
    IF now < w.balls[i].lockedUntil THEN w
    ELSE Convert(w, i, now, w.balls[i].color,
                 NextColor(w.balls[i].color, Random(w.drawn)))

\* What an onHitLumie call on lumie i may touch, for the history of calls
Touched(w, i) ==
    [lumie |-> w.balls[i],
     others |-> [k \in (1..Len(w.balls)) \ {i} |-> w.balls[k]],
     turnChanges |-> w.turnChanges,
     playerColors |-> w.playerColors,
     scoreText |-> w.scoreText,
     overlay |-> w.overlay]

\* History: the call that took w to a is added to hits, and a color change
\* is dated in lastChange
Recorded(w, a, i, now) ==
    [a EXCEPT !.hits = Append(@, [lumie |-> i, now |-> now,
                                  player |-> currentPlayer,
                                  prevChange |-> w.lastChange[i],
                                  pre |-> Touched(w, i),
                                  post |-> Touched(a, i)]),
              !.lastChange[i] = IF a.balls[i].color # w.balls[i].color
                                THEN now ELSE @]

\* resolveCollision: "if (b.isLumie) this.onHitLumie(b)" under
\* "if (impactPower > 0.5)", for b = allBalls[i]
HitLumie(w, i, now, impactPower) ==
    IF Greater(impactPower, ImpactMin) /\ w.balls[i].isLumie
    THEN Recorded(w, OnHitLumie(w, i, now), i, now)
    ELSE w

\* resolveCollision: "Add wobble to angular velocity on impact (chaos)"
Kick(w, i, j) ==
    [w EXCEPT !.balls[i].angularVelocity = @ + Random(w.drawn) - Half,
              !.balls[j].angularVelocity = @ + Random(w.drawn + 1) - Half,
              !.drawn = @ + 2]

\* resolveCollision: "1. Separate" and the velocities of "2. Reflect velocity",
\* for the normal (nx, ny), the tangential parts t1, t2 and the new normal
\* parts v1n, v2n
Reflected(w, i, j, overlap, nx, ny, t1, t2, v1n, v2n) ==
    [w EXCEPT
       !.balls[i].x = Minus(@, Times(nx, overlap, 2000)),
       !.balls[i].y = Minus(@, Times(ny, overlap, 2000)),
       !.balls[j].x = Plus(@, Times(nx, overlap, 2000)),
       !.balls[j].y = Plus(@, Times(ny, overlap, 2000)),
       !.balls[i].vx = Quot(Plus(Mul(Minus(0, ny), t1), Mul(nx, v1n)), 1000),
       !.balls[i].vy = Quot(Plus(Mul(nx, t1), Mul(ny, v1n)), 1000),
       !.balls[j].vx = Quot(Plus(Mul(Minus(0, ny), t2), Mul(nx, v2n)), 1000),
       !.balls[j].vy = Quot(Plus(Mul(nx, t2), Mul(ny, v2n)), 1000)]

\* A resolveCollision that exchanges the normal parts as if the masses were equal
ExchangeEqualMass(w, i, j, now, overlap, nx, ny, t1, t2, n1, n2, m1, m2) ==
    Kick(HitLumie(HitLumie(
           Reflected(w, i, j, overlap, nx, ny, t1, t2, n2, n1),
           i, now, AbsN(Minus(n1, n2))),
           j, now, AbsN(Minus(n1, n2))),
         i, j)

\* resolveCollision from "Conservation of momentum" on: dpTan1, dpTan2 = t1, t2
\* and dpNorm1, dpNorm2 = n1, n2
Exchange(w, i, j, now, overlap, nx, ny, t1, t2, n1, n2, m1, m2) ==
    Kick(HitLumie(HitLumie(
           Reflected(w, i, j, overlap, nx, ny, t1, t2,
                     Quot(Plus(Mul(n1, m1 - m2), Mul(2 * m2, n2)), m1 + m2),
                     Quot(Plus(Mul(n2, m2 - m1), Mul(2 * m1, n1)), m1 + m2)),
           i, now, AbsN(Minus(n1, n2))),
           j, now, AbsN(Minus(n1, n2))),
         i, j)

\* resolveCollision: the dot products, for overlapping b1, b2 and the normal
\* (nx, ny); the tangent is (-ny, nx)
Bounce(w, i, j, now, overlap, nx, ny, b1, b2) ==
    Exchange(w, i, j, now, overlap, nx, ny,
             Quot(Plus(Mul(b1.vx, Minus(0, ny)), Mul(b1.vy, nx)), 1000),
             Quot(Plus(Mul(b2.vx, Minus(0, ny)), Mul(b2.vy, nx)), 1000),
             Quot(Plus(Mul(b1.vx, nx), Mul(b1.vy, ny)), 1000),
             Quot(Plus(Mul(b2.vx, nx), Mul(b2.vy, ny)), 1000),
             b1.mass, b2.mass)

\* resolveCollision: "if (dist < minDist)", for dx, dy and dist
Overlap(w, i, j, now, dx, dy, dist) ==
    IF Less(dist, w.balls[i].r + w.balls[j].r)
    THEN Bounce(w, i, j, now, w.balls[i].r + w.balls[j].r - dist,
                Quot(Mul(dx, 1000), dist), Quot(Mul(dy, 1000), dist),
                w.balls[i], w.balls[j])
    ELSE w

\* resolveCollision: dist, for dx and dy
Distance(w, i, j, now, dx, dy) == Overlap(w, i, j, now, dx, dy, Hypot(dx, dy))

\* resolveCollision(b1, b2), b1 = allBalls[i], b2 = allBalls[j]
ResolveCollision(w, i, j, now) ==
    Distance(w, i, j, now, Minus(w.balls[j].x, w.balls[i].x),
                           Minus(w.balls[j].y, w.balls[i].y))

\* updatePhysics: the two nested loops over pairs, from pair (i, j) on
RECURSIVE Collisions(_, _, _, _)
Collisions(w, i, j, now) ==
    IF i >= Len(w.balls) THEN w
    ELSE IF j > Len(w.balls) THEN Collisions(w, i + 1, i + 2, now)
    ELSE Collisions(ResolveCollision(w, i, j, now), i, j + 1, now)

----------------------------------------------------------------------------
(* class Game: construction, input handlers, turn logic                    *)

\* A resetPlayerBall whose new ball is already rolling
ResetPlayerBallRolling(player, r1, r2) ==
    [Ball(TruncDiv(Width * 100, 2),
          IF player = 1 THEN (Height - SpawnOffset) * 100 ELSE SpawnOffset * 100,
          BallRadius, "gold", FALSE, r1, r2)
       EXCEPT !.vy = IF player = 1 THEN -StopThreshold ELSE StopThreshold]

\* resetPlayerBall(), for the player whose turn it is; r1, r2 as in Ball
ResetPlayerBall(player, r1, r2) ==
    Ball(TruncDiv(Width * 100, 2),
         IF player = 1 THEN (Height - SpawnOffset) * 100 ELSE SpawnOffset * 100,
         BallRadius, "gold", FALSE, r1, r2)

\* initBoard(): lumie i of the row, for spacing
Lumie(i, spacing) ==
    Ball(TruncDiv(Width * 100 - spacing * (Count - 1), 2) + (i - 1) * spacing,
         TruncDiv(Height * 100, 2), LumieRadius, "red", TRUE,
         Draw(0, 2 * (i - 1)), Draw(0, 2 * (i - 1) + 1))

\* initBoard(): this.lumies
InitBoard ==
    [i \in 1..Count |-> Lumie(i, Min(TruncDiv(Width * 100, Count + 1), LumieSpacing))]

\* Vec2.len of the drag, dragStart -> dragCurrent, in 1/100 px
DragLen ==
    ISqrt(((dragCurrent[1] - dragStart[1]) * (dragCurrent[1] - dragStart[1])
           + (dragCurrent[2] - dragStart[2]) * (dragCurrent[2] - dragStart[2])) * 10000)

\* A shoot() that keeps the change log of the previous roll
LaunchKeepLog(vx, vy, len, power) ==
    /\ playerBall' = [playerBall EXCEPT
                        !.vx = TruncDiv(TruncDiv(vx * 100000, len) * power, 1000),
                        !.vy = TruncDiv(TruncDiv(vy * 100000, len) * power, 1000),
                        !.angularVelocity = power]
    /\ turnState' = "rolling"
    /\ UNCHANGED turnChanges
    /\ turnStartTime' = clock
    /\ lumies' = [i \in 1..Count |->
                    IF lumies[i].lockedUntil < clock
                    THEN [lumies[i] EXCEPT !.lockedUntil = 0]
                    ELSE lumies[i]]

\* shoot(): the launch, for the drag vector (vx, vy) px of length len and
\* the power
Launch(vx, vy, len, power) ==
    /\ playerBall' = [playerBall EXCEPT
                        !.vx = TruncDiv(TruncDiv(vx * 100000, len) * power, 1000),
                        !.vy = TruncDiv(TruncDiv(vy * 100000, len) * power, 1000),
                        !.angularVelocity = power]
    /\ turnState' = "rolling"
    /\ turnChanges' = <<>>
    /\ turnStartTime' = clock
    /\ lumies' = [i \in 1..Count |->
                    IF lumies[i].lockedUntil < clock
                    THEN [lumies[i] EXCEPT !.lockedUntil = 0]
                    ELSE lumies[i]]

\* A shoot() whose minimum drag is 1 px
ShootShortDrag(len) ==
    IF len < 100
    THEN UNCHANGED <<playerBall, turnState, turnChanges, turnStartTime, lumies>>
    ELSE Launch(dragCurrent[1] - dragStart[1], dragCurrent[2] - dragStart[2], len,
                Min(TruncDiv(len * DragScale, 100), MaxPower))

\* shoot(), for the drag length len
Shoot(len) ==
    IF len < MinDrag * 100
    THEN UNCHANGED <<playerBall, turnState, turnChanges, turnStartTime, lumies>>
    ELSE Launch(dragCurrent[1] - dragStart[1], dragCurrent[2] - dragStart[2], len,
                Min(TruncDiv(len * DragScale, 100), MaxPower))

\* endTurn(): gainedMy and gainedOpponent
Gained(changes, color) ==
    Cardinality({k \in 1..Len(changes) : changes[k].after = color})

\* A switchTurn that does not look at what the opponent gained
SwitchTurnOwnOnly(changes, myCol) ==
    IF myCol # Null
    THEN ~(Gained(changes, myCol) > 0)
    ELSE TRUE

\* A switchTurn that starts as false, for a player without a color
SwitchTurnNoColor(changes, myCol) ==
    IF myCol # Null
    THEN ~(Gained(changes, myCol) > 0
           /\ Gained(changes, IF myCol = "green" THEN "blue" ELSE "green") = 0)
    ELSE FALSE

\* endTurn(): switchTurn
SwitchTurn(changes, myCol) ==
    IF myCol # Null
    THEN ~(Gained(changes, myCol) > 0
           /\ Gained(changes, IF myCol = "green" THEN "blue" ELSE "green") = 0)
    ELSE TRUE

\* An endTurn that decides with the color the player had when the roll
\* started (colors are assigned during rolls only, so they were assigned then
\* exactly if they were at the end of the previous roll)
EndTurnStartColor(player, changes, colors) ==
    IF SwitchTurn(changes, IF lastTurn.color = Null THEN Null ELSE colors[player])
    THEN (IF player = 1 THEN 2 ELSE 1)
    ELSE player

\* endTurn(): the player whose turn comes next
EndTurn(player, changes, colors) ==
    IF SwitchTurn(changes, colors[player])
    THEN (IF player = 1 THEN 2 ELSE 1)
    ELSE player

\* Pointer positions of the input events, px
Points == { <<120, 200>>, <<120, 203>>, <<10, 70>> }

\* Time between two frames, ms
Steps == {1000, 3001}

\* Outputs of Math.random(), one stream per seed
Seeds == { <<750>>, <<250, 750>> }

\* The latest time the model follows, s
MaxTime == 10

Init ==
    /\ seed \in Seeds
    /\ rpos = (2 * Count + 2) % Len(seed)
    /\ currentPlayer = 1
    /\ playerColors = [p \in {1, 2} |-> Null]
    /\ scores = [green |-> 0, blue |-> 0]
    /\ scoreText = [green |-> 0, blue |-> 0]
    /\ overlay = "hidden"
    /\ turnState = "aiming"
    /\ dragStart = NoPoint
    /\ dragCurrent = NoPoint
    /\ turnChanges = <<>>
    /\ turnStartTime = 0
    /\ clock = 0
    /\ lumies = InitBoard
    /\ playerBall = ResetPlayerBall(1, Draw(0, 2 * Count), Draw(0, 2 * Count + 1))
    /\ lastHits = <<>>
    /\ lastChange = [i \in 1..Count |-> -1]
    /\ lastTurn = [player |-> 0, color |-> Null, changes |-> <<>>, next |-> 0]
    /\ lastRelease = [len |-> -1, phase |-> "aiming"]

\* bindEvents, start: "if (allowedY || distToBall < 60)"
Grab(p) ==
    \/ IF currentPlayer = 1 THEN p[2] * 100 > Height * 75 ELSE p[2] * 100 < Height * 25
    \/ Less(Hypot(Minus(p[1] * 100, playerBall.x), Minus(p[2] * 100, playerBall.y)),
            GrabDist)

\* bindEvents: const start = (p) => ...
Start(p) ==
    /\ IF turnState = "aiming" /\ Grab(p)
       THEN dragStart' = p /\ dragCurrent' = p
       ELSE UNCHANGED <<dragStart, dragCurrent>>
    /\ UNCHANGED <<lumies, playerBall, currentPlayer, playerColors, scores,
                   scoreText, overlay, turnState, turnChanges, turnStartTime,
                   clock, seed, rpos, lastHits, lastChange, lastTurn, lastRelease>>

\* bindEvents: const move = (p) => ...
Move(p) ==
    /\ IF dragStart = NoPoint
       THEN UNCHANGED dragCurrent
       ELSE dragCurrent' = p
    /\ UNCHANGED <<lumies, playerBall, currentPlayer, playerColors, scores,
                   scoreText, overlay, turnState, dragStart, turnChanges,
                   turnStartTime, clock, seed, rpos, lastHits, lastChange,
                   lastTurn, lastRelease>>

\* bindEvents: const end = () => ...
End ==
    /\ IF dragStart = NoPoint
       THEN UNCHANGED <<playerBall, turnState, turnChanges, turnStartTime,
                        lumies, dragStart, dragCurrent, lastRelease>>
       ELSE /\ Shoot(DragLen)
            /\ dragStart' = NoPoint
            /\ dragCurrent' = NoPoint
            /\ lastRelease' = [len |-> DragLen, phase |-> turnState]
    /\ UNCHANGED <<currentPlayer, playerColors, scores, scoreText, overlay,
                   clock, seed, rpos, lastHits, lastChange, lastTurn>>

\* updatePhysics(): the record it starts from
Frame ==
    [balls |-> lumies \o <<playerBall>>, moving |-> FALSE,
     turnChanges |-> turnChanges, playerColors |-> playerColors,
     scoreText |-> scoreText, overlay |-> overlay, drawn |-> 0,
     hits |-> <<>>, lastChange |-> lastChange]

\* endTurn(), next being the player whose turn comes
Turn(w, next) ==
    /\ currentPlayer' = next
    /\ playerBall' = ResetPlayerBall(next, Random(w.drawn), Random(w.drawn + 1))
    /\ turnState' = "aiming"
    /\ rpos' = (rpos + w.drawn + 2) % Len(seed)
    /\ lastTurn' = [player |-> currentPlayer, color |-> w.playerColors[currentPlayer],
                    changes |-> w.turnChanges, next |-> next]

\* updatePhysics(): what the frame leaves, w being the record after the
\* collisions; "if (!moving) ... this.endTurn()"
Settle(w) ==
    /\ lumies' = SubSeq(w.balls, 1, Count)
    /\ turnChanges' = w.turnChanges
    /\ playerColors' = w.playerColors
    /\ scoreText' = w.scoreText
    /\ overlay' = w.overlay
    /\ lastHits' = w.hits
    /\ lastChange' = w.lastChange
    /\ IF ~w.moving
       THEN Turn(w, EndTurn(currentPlayer, w.turnChanges, w.playerColors))
       ELSE /\ playerBall' = w.balls[Count + 1]
            /\ rpos' = (rpos + w.drawn) % Len(seed)
            /\ UNCHANGED <<currentPlayer, turnState, lastTurn>>

\* updatePhysics() at Date.now() = now
UpdatePhysics(now) ==
    Settle(Collisions(UpdateBalls(Frame, 1, now - turnStartTime > TimeLimit),
                      1, 2, now))

\* loop(): one animation frame, dt ms after the previous one
Loop(dt) ==
    /\ clock + dt <= MaxTime * 1000
    /\ clock' = clock + dt
    /\ IF turnState = "rolling"
       THEN UpdatePhysics(clock + dt)
       ELSE UNCHANGED <<lumies, playerBall, currentPlayer, playerColors,
                        scoreText, overlay, turnState, turnChanges, rpos,
                        lastHits, lastChange, lastTurn>>
    /\ UNCHANGED <<scores, dragStart, dragCurrent, turnStartTime, seed, lastRelease>>

Next ==
    \/ \E p \in Points : Start(p)
    \/ \E p \in Points : Move(p)
    \/ End
    \/ \E dt \in Steps : Loop(dt)

Spec == Init /\ [][Next]_vars

----------------------------------------------------------------------------
(* The same game on a display that calls loop() every 50 ms, played with   *)
(* gentle drags as well as strong ones: balls then stop by friction before *)
(* the 3000 ms cap, and slow lumies are followed tick by tick.             *)

\* Pointer positions of the input events, px
SlowPoints == { <<120, 200>>, <<120, 192>>, <<10, 70>> }

\* Time between two frames, ms
SlowSteps == {50}

\* The number of frames the model follows
MaxTicks == 70

\* loop(): one of the frames of this display
SlowLoop == \E dt \in SlowSteps : clock + dt <= MaxTicks * dt /\ Loop(dt)

NextSlow ==
    \/ \E p \in SlowPoints : Start(p)
    \/ \E p \in SlowPoints : Move(p)
    \/ End
    \/ SlowLoop

SpecSlow == Init /\ [][NextSlow]_vars

\* The passing of time over a frame: the steps of NextSlow that change the
\* clock are the steps of SlowLoop, and SlowLoop is enabled whenever this is
SlowTick == \E dt \in SlowSteps : clock + dt <= MaxTicks * dt /\ clock' = clock + dt

\* requestAnimationFrame calls loop() again for as long as the page runs
LiveSlow == SpecSlow /\ WF_clock(SlowTick)

----------------------------------------------------------------------------
(* resolveCollision(b1, b2) as a function of the two bodies: the board of  *)
(* a roll in progress, with lumie 1, lumie 2 and the player ball placed    *)
(* around a point of the board at offsets and with velocities drawn from   *)
(* small sets, and resolveCollision applied to a pair of its bodies.       *)

\* The centre of lumie 1, 1/100 px
Base == <<6000, 8000>>

\* The centre of a second body, from the centre of lumie 1, 1/100 px: the
\* same point, overlapping along a 3-4-5 normal, 40 px apart along x (two
\* lumies touch, a lumie and the player ball overlap), overlapping obliquely
Offsets == { <<0, 0>>, <<1800, 2400>>, <<4000, 0>>, <<-2000, 1000>> }

\* The velocity of a body, 1/100 px per tick
Velocities == { <<0, 0>>, <<1500, -700>>, <<-2100, 1050>> }

\* A body b at the offset off and with the velocity v
Placed(b, off, v) ==
    [b EXCEPT !.x = Base[1] + off[1], !.y = Base[2] + off[2],
              !.vx = v[1], !.vy = v[2]]

InitCollide ==
    /\ seed \in Seeds
    /\ rpos = 0
    /\ currentPlayer = 1
    /\ playerColors = [p \in {1, 2} |-> Null]
    /\ scores = [green |-> 0, blue |-> 0]
    /\ scoreText = [green |-> 0, blue |-> 0]
    /\ overlay = "hidden"
    /\ turnState = "rolling"
    /\ dragStart = NoPoint
    /\ dragCurrent = NoPoint
    /\ turnChanges = <<>>
    /\ turnStartTime = 0
    /\ clock = 0
    /\ \E off \in Offsets, u1, u2 \in Velocities :
         lumies = [InitBoard EXCEPT ![1] = Placed(@, <<0, 0>>, u1),
                                    ![2] = Placed(@, off, u2)]
    /\ \E off \in Offsets, u \in Velocities :
         playerBall = Placed(ResetPlayerBall(1, Draw(0, 2 * Count),
                                             Draw(0, 2 * Count + 1)),
                             <<-off[1], -off[2]>>, u)
    /\ lastHits = <<>>
    /\ lastChange = [i \in 1..Count |-> -1]
    /\ lastTurn = [player |-> 0, color |-> Null, changes |-> <<>>, next |-> 0]
    /\ lastRelease = [len |-> -1, phase |-> "aiming"]

\* What a call of resolveCollision leaves, w being the record after it
Collided(w) ==
    /\ lumies' = SubSeq(w.balls, 1, Count)
    /\ playerBall' = w.balls[Count + 1]
    /\ turnChanges' = w.turnChanges
    /\ playerColors' = w.playerColors
    /\ scoreText' = w.scoreText
    /\ overlay' = w.overlay
    /\ rpos' = (rpos + w.drawn) % Len(seed)
    /\ lastHits' = w.hits
    /\ lastChange' = w.lastChange

\* The bodies are as drawn: no call has added its kick to an angular velocity
Drawn == \A i \in 1..Count : lumies[i].angularVelocity = 0

\* this.resolveCollision(allBalls[i], allBalls[j]), as updatePhysics calls it,
\* applied to the bodies drawn
Collide(i, j) ==
    /\ turnState = "rolling"
    /\ Drawn
    /\ Collided(ResolveCollision(Frame, i, j, clock))
    /\ UNCHANGED <<currentPlayer, scores, turnState, dragStart, dragCurrent,
                   turnStartTime, clock, seed, lastTurn, lastRelease>>

NextCollide == \E i \in 1..Count, j \in 2..(Count + 1) : i < j /\ Collide(i, j)

SpecCollide == InitCollide /\ [][NextCollide]_vars

----------------------------------------------------------------------------
(* The claims                                                              *)

Other(p) == IF p = 1 THEN 2 ELSE 1

Opposite(color) == IF color = "green" THEN "blue" ELSE "green"

\* The onHitLumie calls of the latest frame
Hits == {lastHits[k] : k \in 1..Len(lastHits)}

\* The call found the lumie unlocked: it is a conversion
Unlocked(h) == h.now >= h.pre.lumie.lockedUntil

\* The squared length of the drag, px^2
DragSq ==
    (dragCurrent[1] - dragStart[1]) * (dragCurrent[1] - dragStart[1])
    + (dragCurrent[2] - dragStart[2]) * (dragCurrent[2] - dragStart[2])

Stopped(b) == b.vx = 0 /\ b.vy = 0 /\ b.angularVelocity = 0

\* C1: once gameOver() has announced a winner (the count of targets of one
\* color reached 5), no later step enters rolling, changes the current player
\* or changes the color of a target.
C1_MatchOver ==
    [][overlay # "hidden" =>
         /\ (turnState' = "rolling" => turnState = "rolling")
         /\ currentPlayer' = currentPlayer
         /\ \A i \in 1..Count : lumies'[i].color = lumies[i].color]_vars

\* C2: an onHitLumie call on a target whose lock has not expired
\* (now < lockedUntil) leaves the target, every other ball, the change log,
\* the players' colors, the scores and the win modal as they were.
C2_LockedHitChangesNothing ==
    \A h \in Hits : h.now < h.pre.lumie.lockedUntil => h.post = h.pre

C2_Witness == \E h \in Hits : h.now < h.pre.lumie.lockedUntil

\* C3: when a roll ends and the acting player has a color, the player keeps
\* the turn exactly when the change log has an entry that results in the
\* player's color and none that results in the opponent's; otherwise the
\* other player is next.
C3_ReplayRule ==
    [][(turnState = "rolling" /\ turnState' = "aiming"
        /\ playerColors'[currentPlayer] # Null) =>
         IF /\ \E k \in 1..Len(turnChanges') :
                  turnChanges'[k].after = playerColors'[currentPlayer]
            /\ \A k \in 1..Len(turnChanges') :
                  turnChanges'[k].after # Opposite(playerColors'[currentPlayer])
         THEN currentPlayer' = currentPlayer
         ELSE currentPlayer' = Other(currentPlayer)]_vars

C3_Witness ==
    /\ lastTurn.player # 0
    /\ lastTurn.color # Null
    /\ lastTurn.next = lastTurn.player
    /\ Len(lastTurn.changes) >= 2

\* C4: when a roll ends and the acting player has no color, the other
\* player is next.
C4_NoColorSwitches ==
    [][(turnState = "rolling" /\ turnState' = "aiming"
        /\ playerColors'[currentPlayer] = Null) =>
         currentPlayer' = Other(currentPlayer)]_vars

C4_Witness ==
    /\ lastTurn.player # 0
    /\ lastTurn.color = Null
    /\ lastTurn.next = Other(lastTurn.player)

\* C5: a conversion made while no player has a color gives the player whose
\* roll is in progress the color the target took, and the other player the
\* other color.
C5_FirstBlood ==
    \A h \in Hits :
        (h.pre.playerColors[1] = Null /\ h.pre.playerColors[2] = Null /\ Unlocked(h)) =>
            /\ h.post.lumie.color \in {"green", "blue"}
            /\ h.post.playerColors[h.player] = h.post.lumie.color
            /\ h.post.playerColors[Other(h.player)] = Opposite(h.post.lumie.color)

C5_Witness ==
    \E h \in Hits :
        /\ h.pre.playerColors[1] = Null /\ h.pre.playerColors[2] = Null
        /\ Unlocked(h)
        /\ h.player = 2

\* C6: a player's color, once assigned, is never changed by any step.
C6_ColorsPermanent ==
    [][\A p \in {1, 2} :
         playerColors[p] # Null => playerColors'[p] = playerColors[p]]_vars

C6_Witness ==
    \E h \in Hits :
        /\ h.pre.playerColors[1] # Null
        /\ Unlocked(h)
        /\ h.pre.lumie.color = "red"
        /\ h.post.lumie.color # h.post.playerColors[h.player]

\* C7: a conversion (onHitLumie on an unlocked target) turns red into green
\* or blue, green into blue and blue into green, and appends exactly the
\* record {target, previous color, new color} to the change log.
C7_TransitionTable ==
    \A h \in Hits :
        Unlocked(h) =>
            /\ h.pre.lumie.color = "red" => h.post.lumie.color \in {"green", "blue"}
            /\ h.pre.lumie.color = "green" => h.post.lumie.color = "blue"
            /\ h.pre.lumie.color = "blue" => h.post.lumie.color = "green"
            /\ h.post.turnChanges =
                 Append(h.pre.turnChanges, [ball |-> h.lumie,
                                            before |-> h.pre.lumie.color,
                                            after |-> h.post.lumie.color])

C7_Witness ==
    \E h \in Hits :
        Unlocked(h) /\ h.pre.lumie.color = "green" /\ h.post.lumie.color = "blue"

\* C8: a conversion at time now locks the target until now + cooldown, and a
\* color change of a target comes at least cooldown ms after its previous one.
C8_Cooldown ==
    \A h \in Hits :
        /\ Unlocked(h) => h.post.lumie.lockedUntil = h.now + Cooldown
        /\ (h.post.lumie.color # h.pre.lumie.color /\ h.prevChange # -1) =>
               h.now - h.prevChange >= Cooldown

C8_Witness ==
    \E h \in Hits : h.post.lumie.color # h.pre.lumie.color /\ h.prevChange # -1

\* C9: an input event outside aiming changes nothing; the phase becomes
\* rolling only by a release in aiming with a drag of at least 5 px; and a
\* release with a shorter drag leaves the phase, the player ball, the change
\* log and the roll-start time as they were.
C9_ShootGuard ==
    [][/\ (turnState # "aiming" /\ clock' = clock) =>
              UNCHANGED <<lumies, playerBall, currentPlayer, playerColors, scores,
                          scoreText, overlay, turnState, dragStart, dragCurrent,
                          turnChanges, turnStartTime>>
       /\ (turnState # "rolling" /\ turnState' = "rolling") =>
              /\ turnState = "aiming"
              /\ dragStart # NoPoint
              /\ DragSq >= MinDrag * MinDrag
       /\ (dragStart # NoPoint /\ dragStart' = NoPoint /\ DragSq < MinDrag * MinDrag) =>
              UNCHANGED <<turnState, playerBall, turnChanges, turnStartTime>>]_vars

C9_Witness ==
    /\ lastRelease.len >= 0
    /\ lastRelease.len < MinDrag * 100
    /\ turnState = "aiming"

\* C10: a frame that runs more than 3000 ms after the roll started ends the
\* roll and leaves every body with zero velocity and zero angular velocity.
C10_HardStop ==
    [][(turnState = "rolling" /\ clock' # clock
        /\ clock' - turnStartTime > TimeLimit) =>
         /\ turnState' # "rolling"
         /\ \A i \in 1..Count : Stopped(lumies'[i])
         /\ Stopped(playerBall')]_vars

\* The frames of the model reach past the 3000 ms cap of the current roll
FramesAhead == \E dt \in SlowSteps : turnStartTime + TimeLimit + dt <= MaxTicks * dt

\* C11: every roll runs to completion: while frames keep coming, a rolling
\* phase leads to aiming (all bodies stopped, or the 3000 ms cap), and no
\* state between two handlers rests in another phase than aiming or rolling.
C11_RollCompletes ==
    /\ [](turnState \in {"aiming", "rolling"})
    /\ (turnState = "rolling" /\ FramesAhead) ~> (turnState = "aiming")

C11_Witness ==
    /\ turnState = "aiming"
    /\ lastTurn.player # 0
    /\ clock - turnStartTime <= TimeLimit

\* The number of lumies that hold the color
Holding(color) == Cardinality({i \in 1..Count : lumies[i].color = color})

\* C12: the score of each color (the scores of the match state) equals the
\* number of lumies that hold the color, so the two scores add up to at most 5.
C12_ScoresFollowColors ==
    /\ scores.green = Holding("green")
    /\ scores.blue = Holding("blue")
    /\ scores.green + scores.blue <= Count

\* The bodies, allBalls
Bodies == lumies \o <<playerBall>>

Finite(b) == ~IsNaN(b.x) /\ ~IsNaN(b.y) /\ ~IsNaN(b.vx) /\ ~IsNaN(b.vy)

\* C13: resolveCollision never leaves a non-finite value (NaN) in the
\* position or the velocity of a body, coincident centres included.
C13_FiniteBodies == \A i \in 1..(Count + 1) : Finite(Bodies[i])

\* update() took the body b to u: u is slower than b, and at rest with no
\* spin if the speed after friction is below the stop threshold
Decays(b, u) ==
    /\ Less(BallSpeed(u), BallSpeed(b))
    /\ Less(BallSpeed(BallMoved(b)), StopThreshold) => Stopped(u)

\* C14: for every body that moves during a roll, one update() strictly
\* decreases its speed, and leaves it at rest with no spin once the speed is
\* below the stop threshold.
C14_SpeedDecays ==
    turnState = "rolling" =>
        \A i \in 1..(Count + 1) :
            Greater(BallSpeed(Bodies[i]), 0) =>
                Decays(Bodies[i], BallUpdate(Bodies[i], Random(0)))

\* The speed lost to the truncation of the fixed-point products, 1/100 px
\* per tick
Rounding == 4

\* shoot(): min(len * dragScale, maxPower) for the drag as it is, 1/100 px per tick
LaunchPower == Min(TruncDiv(ISqrt(DragSq * 10000) * DragScale, 100), MaxPower)

\* C15: the step from aiming to rolling empties the change log, sets the
\* roll-start time to the current time, resets exactly the locks that have
\* expired, and launches the player ball at min(drag length * dragScale,
\* maxPower), never above maxPower; and every entry of the change log is a
\* conversion made since the roll started.
C15_ShotEffect ==
    /\ [][(turnState = "aiming" /\ turnState' = "rolling") =>
            /\ turnChanges' = <<>>
            /\ turnStartTime' = clock
            /\ lumies' = [i \in 1..Count |->
                            IF lumies[i].lockedUntil < clock
                            THEN [lumies[i] EXCEPT !.lockedUntil = 0]
                            ELSE lumies[i]]
            /\ BallSpeed(playerBall') <= LaunchPower
            /\ BallSpeed(playerBall') >= LaunchPower - Rounding
            /\ BallSpeed(playerBall') <= MaxPower]_vars
    /\ [](\A k \in 1..Len(turnChanges) :
            lastChange[turnChanges[k].ball] >= turnStartTime)

C15_Witness ==
    /\ turnState = "rolling"
    /\ clock = turnStartTime
    /\ turnChanges = <<>>
    /\ lastTurn.changes # <<>>
    /\ \E i \in 1..Count : lumies[i].color # "red" /\ lumies[i].lockedUntil = 0
    /\ \E i \in 1..Count : lumies[i].lockedUntil > clock

\* The part of the velocity of b along the unit vector (nx, ny) / 1000
Along(b, nx, ny) == TruncDiv(b.vx * nx + b.vy * ny, 1000)

\* The part of the velocity of b along the tangent (-ny, nx) / 1000
Across(b, nx, ny) == TruncDiv(b.vy * nx - b.vx * ny, 1000)

Near(a, b, tolerance) == Abs(a - b) <= tolerance

\* The bodies b1, b2 became c1, c2: the momentum along the normal (nx, ny) is
\* the same, and so is the tangential part of each velocity
Conserves(b1, b2, c1, c2, nx, ny) ==
    /\ Near(b1.mass * Along(c1, nx, ny) + b2.mass * Along(c2, nx, ny),
            b1.mass * Along(b1, nx, ny) + b2.mass * Along(b2, nx, ny),
            Rounding * (b1.mass + b2.mass))
    /\ Near(Across(c1, nx, ny), Across(b1, nx, ny), Rounding)
    /\ Near(Across(c2, nx, ny), Across(b2, nx, ny), Rounding)

\* The same for the normal from b1 to b2, their centres being dist apart
ConservesAt(b1, b2, c1, c2, dist) ==
    Conserves(b1, b2, c1, c2, TruncDiv((b2.x - b1.x) * 1000, dist),
                              TruncDiv((b2.y - b1.y) * 1000, dist))

Apart(b1, b2) == ISqrt((b2.x - b1.x) * (b2.x - b1.x) + (b2.y - b1.y) * (b2.y - b1.y))

C17_AimingAtRest ==
    turnState = "aiming" =>
        \A i \in 1..(Count + 1) : Bodies[i].vx = 0 /\ Bodies[i].vy = 0

\* a roll has ended in a frame that resolved a collision after the moving
\* test (a target still carries the spin of that collision)
C17_Witness ==
    /\ turnState = "aiming"
    /\ lastTurn.player # 0
    /\ \E i \in 1..Count : lumies[i].angularVelocity # 0


\* The lumies of the roll's change log
Logged == {turnChanges[k].ball : k \in 1..Len(turnChanges)}

\* C18: within one roll a target changes color at most once: the change log
\* of the roll never holds two entries for the same target nor more than 5
\* entries, a frame changes the color only of targets not yet in the log,
\* and the frame that applies the 3000 ms cap adds no entry.
C18_OneChangePerRoll ==
    /\ [](/\ Len(turnChanges) <= Count
          /\ Cardinality(Logged) = Len(turnChanges))
    /\ [][/\ \A i \in 1..Count :
                 lumies'[i].color # lumies[i].color => i \notin Logged
          /\ (turnState = "rolling" /\ clock' - turnStartTime > TimeLimit) =>
                 turnChanges' = turnChanges]_vars

\* a lumie converted earlier in the roll is hit again in a later frame of the
\* same roll, and the log holds more than one entry
C18_Witness ==
    /\ turnState = "rolling"
    /\ Len(turnChanges) >= 2
    /\ \E h \in Hits :
           /\ h.lumie \in Logged
           /\ ~Unlocked(h)
           /\ lastChange[h.lumie] < h.now


\* C19: in every reachable state the colors of the two players are either
\* both unassigned, or both assigned, one green and one blue; they are
\* assigned exactly when some target is not neutral; and a target that has
\* left neutral never becomes neutral again.
C19_ColorsTogether ==
    /\ [](/\ \/ playerColors[1] = Null /\ playerColors[2] = Null
             \/ /\ playerColors[1] \in {"green", "blue"}
                /\ playerColors[2] = Opposite(playerColors[1])
          /\ (playerColors[1] # Null) <=> (\E i \in 1..Count : lumies[i].color # "red"))
    /\ [][\A i \in 1..Count : lumies[i].color # "red" => lumies'[i].color # "red"]_vars

\* the colors are assigned, player 1 holding blue, while targets of all
\* three colors are on the board, one of them converted a second time
C19_Witness ==
    /\ playerColors[1] = "blue"
    /\ playerColors[2] = "green"
    /\ \A c \in {"red", "green", "blue"} : \E i \in 1..Count : lumies[i].color = c
    /\ \E h \in Hits : Unlocked(h) /\ h.pre.lumie.color # "red"


\* The roll that ends in this step held the first conversion of the match:
\* its log is not empty, every entry starts from red, and the lumies outside
\* the log are still red
FirstBloodRoll ==
    /\ turnState = "rolling" /\ turnState' = "aiming"
    /\ turnChanges' # <<>>
    /\ \A k \in 1..Len(turnChanges') : turnChanges'[k].before = "red"
    /\ \A i \in 1..Count :
          (\A k \in 1..Len(turnChanges') : turnChanges'[k].ball # i) =>
              lumies'[i].color = "red"

\* C20: when the first conversion of the match happens during a roll and no
\* conversion of that roll results in the color assigned to the opponent, the
\* acting player, who had no color when the roll started, plays again after
\* that roll.
C20_FirstBloodReplay ==
    [][(/\ FirstBloodRoll
        /\ \A k \in 1..Len(turnChanges') :
              turnChanges'[k].after # playerColors'[Other(currentPlayer)]) =>
           currentPlayer' = currentPlayer]_vars

\* the first roll with a conversion has just ended with two conversions, both
\* to the acting player's color, and the same player aims again
C20_Witness ==
    /\ turnState = "aiming"
    /\ lastTurn.player = currentPlayer
    /\ lastTurn.changes = turnChanges
    /\ Len(turnChanges) >= 2
    /\ \A k \in 1..Len(turnChanges) :
          turnChanges[k].before = "red" /\ turnChanges[k].after = playerColors[currentPlayer]
    /\ \A i \in 1..Count : i \notin Logged => lumies[i].color = "red"


\* The body lies inside the board
Inside(b) ==
    /\ b.r <= b.x /\ b.x <= Width * 100 - b.r
    /\ b.r <= b.y /\ b.y <= Height * 100 - b.r

\* C21: at the end of every frame of the physics every body lies inside the
\* board, r <= x <= width - r and r <= y <= height - r, although the walls
\* are applied before the collisions of the same frame separate the bodies.
C21_InsideBoard == \A i \in 1..(Count + 1) : Inside(Bodies[i])

=============================================================================
